---- MODULE Spec2Model ----
(***************************************************************************)
(* State-machine model of rbg_live_dl.__main__.main: the crawl-and-download *)
(* pipeline (login, pinned-course discovery, per-course video listing, and  *)
(* the per-video retry / skip / failure-record loop).  The browser session, *)
(* the stream downloader and the filesystem are the environment: every call *)
(* into them either returns or raises, chosen nondeterministically.         *)
(***************************************************************************)
EXTENDS Integers, Sequences, FiniteSets, TLC

(* ------------------------------ bounds --------------------------------- *)
\* Largest number of pinned courses the portal returns.
MaxCourses == 2
\* Largest number of video URLs one course listing returns.
MaxVideos == 2
\* Cap on the number of attempts of one run that get an irregular collaborator
\* response: a raised exception, or a title other than the regular one.
MaxIrregular == 3
\* Largest number of videos the portal adds to the head of a listing between
\* two runs.
MaxPrepend == 1

(* ------------------------- program constants --------------------------- *)
\* os.path.getsize(out_path) > 1_000_000
Threshold == 1000000
\* for attempt in range(1, 4)
LastAttempt == 3

(* --------------------------- environment ------------------------------- *)
\* Folder names extract_video_info can return (sanitized, never empty).
Folders == {"F"}
\* File stems extract_video_info can return.  "t1" is the regular title of a
\* page, "t2" a differently rendered one, "tLong" a title longer than the
\* filesystem accepts in one path component.
Stems == {"t1", "t2", "tLong"}
RegularStem == "t1"
\* Sizes of the media files an earlier run can have left: at the threshold
\* (a truncated artifact) and just above it.
Sizes == {Threshold, Threshold + 1}
\* Size of the file a download that returns leaves: a lecture recording is
\* larger than the threshold.
DownloadSize == Threshold + 1

\* Whether the filesystem can create a file whose name carries this stem
\* (open() and the downloader raise OSError for a component that is too long).
CanCreate(stem) == stem # "tLong"

(* ------------------------------- state --------------------------------- *)
VARIABLES
  pc,             \* position in main
  overwrite,      \* "--overwrite" in sys.argv
  driver,         \* "none" | "open" | "quit"
  pinned,         \* number of courses get_pinned_courses returned
  ci,             \* 1-based position of the course loop in pinned
  n_videos,       \* len(video_urls) of the current course
  idx,            \* 0-based position of the video loop
  counter,        \* n_videos - idx
  folder,         \* last resolved folder of this video, or "unknown"
  file_name,      \* last resolved stem of this video, or "unknown"
  hls_url,        \* stream URL of the last successful resolution
  last_exception, \* 0 for None, else the attempt whose exception it holds
  attempt,        \* loop variable of the retry loop
  disk,           \* media files under out/: set of [path, size]
  records,        \* FailureRecord files under out/: set of [path, vid]
  \* history (observations, never read by the program)
  quits,          \* number of driver.quit() calls
  opsAfterQuit,   \* a browser operation ran on a released session
  loginCalls,     \* number of automated_login calls
  discoverCalls,  \* number of get_pinned_courses calls
  fatal,          \* which step's exception left main, or "none"
  listed,         \* course -> length of its listing, -1 before it is fetched
  hist,           \* video -> how it ended and the ordinals it was given
  cur,            \* calls made for the video being processed
  irregular,      \* attempts with an irregular collaborator response so far
  run,            \* 1 in the first run of the program, 2 in a later run
  first           \* what the first run listed and how its videos ended

vars == <<pc, overwrite, driver, pinned, ci, n_videos, idx, counter, folder,
          file_name, hls_url, last_exception, attempt, disk, records, quits,
          opsAfterQuit, loginCalls, discoverCalls, fatal, listed, hist, cur,
          irregular, run, first>>

locals == <<pinned, ci, n_videos, idx, counter, folder, file_name, hls_url,
            last_exception, attempt>>

\* The listing of the end-to-end scenario of the specification, newest first.
E2EListing == <<"v3", "v2", "v1">>

Courses == 1..MaxCourses
Positions ==
  0..((IF MaxVideos > Len(E2EListing) THEN MaxVideos ELSE Len(E2EListing)) - 1)
VidKeys == Courses \X Positions

\* Per video: tried (an attempt was started), ends (the outcomes the code
\* announced), exhausted (the third attempt raised), ords (the ordinals its
\* target paths and its FailureRecord carried).
NoHist == [tried |-> FALSE, ends |-> {}, exhausted |-> FALSE, ords |-> {}]
\* Calls made for the video being processed.  present: the first attempt whose
\* target was a file larger than 1,000,000 bytes (0: none); late: calls made
\* although the target was there (the download call of that attempt, and any
\* resolution or download call of a later attempt); stale: idempotency checks
\* and download calls whose stream URL or path was not the one the resolution
\* of the same attempt returned; names: what the last resolution that
\* returned for this video returned (<<>>: none did).
NoCalls == [vid |-> <<0, 0>>, resolves |-> 0, rraises |-> 0, downloads |-> 0,
            draises |-> 0, sleeps |-> 0, recs |-> 0, present |-> 0, late |-> 0,
            stale |-> 0, names |-> <<>>]

\* Before a second run there is no first run to remember.
NoFirst == [listed |-> <<>>, hist |-> <<>>]

(* ----------------------------- helpers --------------------------------- *)
\* Variant: the ordinal counted up from the head of the listing.
Counter_Ascending(n, i) == i + 1

\* counter = n_videos - idx
Counter(n, i) == n - i

\* f"{counter:02d}": at least two decimal digits.
Fmt02(n) == IF n < 10 THEN <<0, n>> ELSE <<n \div 10, n % 10>>

\* os.path.join("out", folder, f"{counter:02d} " + file_name + ".mp4")
OutPath(fold, cnt, stem) ==
  [dir |-> fold, num |-> Fmt02(cnt), stem |-> stem, ext |-> "mp4"]

\* Variant: the FailureRecord always named by the placeholders.
ErrorFile_Placeholder(fold, cnt, stem) ==
  [dir |-> "unknown", num |-> Fmt02(cnt), stem |-> "unknown", ext |-> ""]

\* os.path.join("out", folder if folder else "out", f"{counter:02d} {file_name}")
ErrorFile(fold, cnt, stem) ==
  [dir |-> IF fold = "" THEN "out" ELSE fold,
   num |-> Fmt02(cnt), stem |-> stem, ext |-> ""]

isfile(d, p) == \E f \in d : f.path = p
getsize(d, p) == (CHOOSE f \in d : f.path = p).size
WriteFile(d, p, s) == {f \in d : f.path # p} \cup {[path |-> p, size |-> s]}

\* Variant: the skip test with a threshold that is not strict.
ShouldSkip_AtThreshold(ow, d, p) == ~ow /\ isfile(d, p) /\ getsize(d, p) >= Threshold

\* Variant: the skip test without the overwrite flag.
ShouldSkip_IgnoresFlag(ow, d, p) == isfile(d, p) /\ getsize(d, p) > Threshold

\* not overwrite and os.path.isfile(out_path) and os.path.getsize(out_path) > 1_000_000
ShouldSkip(ow, d, p) == ~ow /\ isfile(d, p) /\ getsize(d, p) > Threshold

\* Variant: a delay after every failed attempt, the last one included.
SleepsAfter_Always(a) == TRUE

\* if attempt < 3: time.sleep(2)
SleepsAfter(a) == a < LastAttempt

\* A browser operation on the session: records use after release.
BrowserOp == opsAfterQuit' = (opsAfterQuit \/ driver # "open")

\* finally: driver.quit()
Release == driver' = "quit" /\ quits' = quits + 1

\* Variant: the exception leaves main without the finally clause.
Propagate_NoFinally(step) ==
  pc' = "aborted" /\ fatal' = step /\ UNCHANGED <<driver, quits>>

\* An exception leaves the try block of main: the finally clause runs.
Propagate(step) == pc' = "aborted" /\ fatal' = step /\ Release

(* ------------------------------- Init ---------------------------------- *)
\* Output trees a previous run can have left: nothing, or one media file.
SeedDisks ==
  {{}} \cup { {[path |-> OutPath(f, o, RegularStem), size |-> s]} :
              f \in Folders, o \in 1..MaxVideos, s \in Sizes }

Init ==
  /\ pc = "start"
  /\ overwrite \in BOOLEAN
  /\ driver = "none"
  /\ pinned = 0 /\ ci = 0 /\ n_videos = 0 /\ idx = 0 /\ counter = 0
  /\ folder = "" /\ file_name = "" /\ hls_url = <<>>
  /\ last_exception = 0 /\ attempt = 0
  /\ disk \in SeedDisks
  /\ records = {}
  /\ quits = 0 /\ opsAfterQuit = FALSE /\ loginCalls = 0 /\ fatal = "none"
  /\ discoverCalls = 0
  /\ listed = [c \in Courses |-> -1]
  /\ hist = [k \in VidKeys |-> NoHist]
  /\ cur = NoCalls
  /\ irregular = 0
  /\ run = 1 /\ first = NoFirst

(* ------------------------------ actions -------------------------------- *)
\* load_credentials() and webdriver.Chrome() succeed.
startup_ok ==
  /\ pc = "start"
  /\ pc' = "login" /\ driver' = "open"
  /\ UNCHANGED <<overwrite, run, first, locals, disk, records, quits, opsAfterQuit,
                 loginCalls, discoverCalls, fatal, listed, hist, cur, irregular>>

\* load_credentials() or webdriver.Chrome() raises: no session exists yet.
startup_raises ==
  /\ pc = "start"
  /\ pc' = "aborted" /\ fatal' = "startup"
  /\ UNCHANGED <<overwrite, run, first, driver, locals, disk, records, quits, opsAfterQuit,
                 loginCalls, discoverCalls, listed, hist, cur, irregular>>

\* automated_login returns: the logout marker appeared.
automated_login_ok ==
  /\ pc = "login"
  /\ BrowserOp /\ loginCalls' = loginCalls + 1
  /\ pc' = "discover"
  /\ UNCHANGED <<overwrite, run, first, driver, locals, disk, records, quits, fatal,
                 discoverCalls,
                 listed, hist, cur, irregular>>

\* Variant: a failed login is tried again.
automated_login_retries ==
  /\ pc = "login"
  /\ BrowserOp /\ loginCalls' = loginCalls + 1
  /\ UNCHANGED <<pc, overwrite, run, first, driver, locals, disk, records, quits, fatal,
                 discoverCalls, listed, hist, cur, irregular>>

\* automated_login raises (an element or the logout marker never appears).
automated_login_raises ==
  /\ pc = "login"
  /\ BrowserOp /\ loginCalls' = loginCalls + 1
  /\ Propagate("login")
  /\ UNCHANGED <<overwrite, run, first, locals, disk, records, discoverCalls, listed, hist, cur,
                 irregular>>

\* pinned = get_pinned_courses(driver)
get_pinned_courses_ok ==
  /\ pc = "discover"
  /\ BrowserOp /\ discoverCalls' = discoverCalls + 1
  /\ \E n \in 0..MaxCourses : pinned' = n
  /\ ci' = 1 /\ pc' = "course"
  /\ UNCHANGED <<overwrite, run, first, driver, n_videos, idx, counter, folder, file_name,
                 hls_url, last_exception, attempt, disk, records, quits,
                 loginCalls, fatal, listed, hist, cur, irregular>>

\* get_pinned_courses raises (the navigation region never renders).
get_pinned_courses_raises ==
  /\ pc = "discover"
  /\ BrowserOp /\ discoverCalls' = discoverCalls + 1
  /\ Propagate("discovery")
  /\ UNCHANGED <<overwrite, run, first, locals, disk, records, loginCalls, listed, hist,
                 cur, irregular>>

\* Variant: the video loop starts at the second entry of the listing.
get_video_urls_ok_FromSecond ==
  /\ pc = "course" /\ ci <= pinned
  /\ BrowserOp
  /\ \E n \in 0..MaxVideos :
       /\ n_videos' = n
       /\ listed' = [listed EXCEPT ![ci] = n]
       /\ idx' = IF n >= 2 THEN 1 ELSE 0
  /\ pc' = "video"
  /\ UNCHANGED <<overwrite, run, first, driver, pinned, ci, counter, folder, file_name,
                 hls_url, last_exception, attempt, disk, records, quits,
                 loginCalls, discoverCalls, fatal, hist, cur, irregular>>

\* for course_name, course_url in pinned: video_urls = get_video_urls(...)
get_video_urls_ok ==
  /\ pc = "course" /\ ci <= pinned
  /\ BrowserOp
  /\ \E n \in 0..MaxVideos :
       /\ n_videos' = n
       /\ listed' = [listed EXCEPT ![ci] = n]
  /\ idx' = 0 /\ pc' = "video"
  /\ UNCHANGED <<overwrite, run, first, driver, pinned, ci, counter, folder, file_name,
                 hls_url, last_exception, attempt, disk, records, quits,
                 loginCalls, discoverCalls, fatal, hist, cur, irregular>>

\* get_video_urls raises (no video card renders within the timeout).
get_video_urls_raises ==
  /\ pc = "course" /\ ci <= pinned
  /\ BrowserOp
  /\ Propagate("listing")
  /\ UNCHANGED <<overwrite, run, first, locals, disk, records, loginCalls, discoverCalls, listed, hist,
                 cur, irregular>>

\* The course loop is exhausted: main falls into the finally clause.
finish ==
  /\ pc = "course" /\ ci > pinned
  /\ pc' = "done" /\ Release
  /\ UNCHANGED <<overwrite, run, first, locals, disk, records, opsAfterQuit, loginCalls, discoverCalls,
                 fatal, listed, hist, cur, irregular>>

\* for idx, vid_url in enumerate(video_urls): the per-video initialisation.
begin_video ==
  /\ pc = "video" /\ idx < n_videos
  /\ counter' = Counter(n_videos, idx)
  /\ folder' = "unknown" /\ file_name' = "unknown"
  /\ last_exception' = 0
  /\ attempt' = 1 /\ pc' = "attempt"
  /\ cur' = [NoCalls EXCEPT !.vid = <<ci, idx>>]
  /\ UNCHANGED <<overwrite, run, first, driver, pinned, ci, n_videos, idx, hls_url, disk,
                 records, quits, opsAfterQuit, loginCalls, discoverCalls, fatal, listed, hist,
                 irregular>>

\* The video loop of this course is exhausted: next course.
end_course ==
  /\ pc = "video" /\ idx = n_videos
  /\ ci' = ci + 1 /\ pc' = "course"
  /\ UNCHANGED <<overwrite, run, first, driver, pinned, n_videos, idx, counter, folder,
                 file_name, hls_url, last_exception, attempt, disk, records,
                 quits, opsAfterQuit, loginCalls, discoverCalls, fatal, listed, hist, cur,
                 irregular>>

\* Variant: the retry loop runs one attempt more.
Handler_FourAttempts(c, h) ==
  /\ last_exception' = attempt
  /\ cur' = IF SleepsAfter(attempt) THEN [c EXCEPT !.sleeps = @ + 1] ELSE c
  /\ IF attempt < LastAttempt + 1
       THEN attempt' = attempt + 1 /\ pc' = "attempt" /\ hist' = h
       ELSE /\ attempt' = attempt /\ pc' = "after"
            /\ hist' = [h EXCEPT ![<<ci, idx>>].exhausted = TRUE]

\* except Exception as e: last_exception = e; sleep unless this was attempt 3;
\* then the next iteration, or the end of the retry loop.  c: the calls of
\* this video including the one that raised.
Handler(c, h) ==
  /\ last_exception' = attempt
  /\ cur' = IF SleepsAfter(attempt) THEN [c EXCEPT !.sleeps = @ + 1] ELSE c
  /\ IF attempt < LastAttempt
       THEN attempt' = attempt + 1 /\ pc' = "attempt" /\ hist' = h
       ELSE /\ attempt' = attempt /\ pc' = "after"
            /\ hist' = [h EXCEPT ![<<ci, idx>>].exhausted = TRUE]

\* The environment answers an attempt; irr: the answer is an irregular one,
\* open while the cap allows.
Answer(irr) ==
  /\ irr => irregular < MaxIrregular
  /\ irregular' = IF irr THEN irregular + 1 ELSE irregular

\* The target path of this attempt is a file larger than 1,000,000 bytes.
AlreadyThere(d, p) == \E f \in d : f.path = p /\ f.size > 1000000

\* The calls of this video after one more resolution; there: the target of
\* this attempt is already there; dl: the attempt goes on to the download call.
Tally(c, there, dl) ==
  [c EXCEPT !.resolves = @ + 1,
            !.downloads = @ + (IF dl THEN 1 ELSE 0),
            !.present = IF @ = 0 /\ there THEN attempt ELSE @,
            !.late = @ + (IF c.present # 0 THEN 1 ELSE 0)
                       + (IF dl /\ (c.present # 0 \/ there) THEN 1 ELSE 0)]

\* An attempt was started for the current video.
Tried(h) == [h EXCEPT ![<<ci, idx>>].tried = TRUE]

\* extract_video_info raises: the except handler runs.
ResolveRaises ==
  /\ pc = "attempt"
  /\ BrowserOp
  /\ Handler([Tally(cur, FALSE, FALSE) EXCEPT !.rraises = @ + 1], Tried(hist))
  /\ UNCHANGED <<overwrite, run, first, driver, pinned, ci, n_videos, idx, counter, folder,
                 file_name, hls_url, disk, records, quits, loginCalls,
                 discoverCalls, fatal, listed>>

\* extract_video_info raises (page not rendered, empty stream URL).
attempt_resolve_raises == Answer(TRUE) /\ ResolveRaises

\* hls_url, folder, file_name = extract_video_info(driver, vid_url) and the
\* target path computed from them.
Resolved(f, s) ==
  /\ folder' = f /\ file_name' = s
  /\ hls_url' = <<ci, idx, attempt>>

\* What the resolution of this attempt returns for a page showing folder f
\* and title s: a stream URL of this attempt and the target path built from
\* the ordinal and the names.
Fresh(f, s) == [url |-> <<ci, idx, attempt>>, path |-> OutPath(f, counter, s)]

\* Variant: from the second attempt on, the stream URL and the names of the
\* previous resolution are used again.
Target_Cached(f, s) ==
  IF attempt = 1 THEN Fresh(f, s)
  ELSE [url |-> hls_url, path |-> OutPath(folder, counter, file_name)]

\* The stream URL and the path the idempotency check and the download call of
\* this attempt work on: the locals lines 145-149 have just assigned.
Target(f, s) == Fresh(f, s)

\* The calls of this video after an attempt whose resolution returned (f, s).
Seen(c, f, s) ==
  [c EXCEPT !.names = <<f, s>>,
            !.stale = @ + (IF Target(f, s) # Fresh(f, s) THEN 1 ELSE 0)]

\* The ordinal the target path of this attempt carries.
WithOrd(h, num) == [Tried(h) EXCEPT ![<<ci, idx>>].ords = @ \cup {num}]

\* extract_video_info returns and the target is already there: break.
attempt_skip ==
  /\ pc = "attempt"
  /\ BrowserOp
  /\ \E f \in Folders, s \in Stems :
       /\ Answer(s # RegularStem)
       /\ ShouldSkip(overwrite, disk, Target(f, s).path)
       /\ Resolved(f, s)
       /\ hist' = [WithOrd(hist, Target(f, s).path.num)
                     EXCEPT ![<<ci, idx>>].ends = @ \cup {"SKIPPED"}]
       /\ cur' = Seen(Tally(cur, AlreadyThere(disk, Target(f, s).path), FALSE), f, s)
  /\ pc' = "after"
  /\ UNCHANGED <<overwrite, run, first, driver, pinned, ci, n_videos, idx, counter,
                 last_exception, attempt, disk, records, quits, loginCalls, discoverCalls,
                 fatal, listed>>

\* extract_video_info returns, download_hls returns: last_exception = None; break.
attempt_download_ok ==
  /\ pc = "attempt"
  /\ BrowserOp
  /\ \E f \in Folders, s \in Stems :
       /\ Answer(s # RegularStem)
       /\ ~ShouldSkip(overwrite, disk, Target(f, s).path)
       /\ CanCreate(s)
       /\ Resolved(f, s)
       /\ disk' = WriteFile(disk, Target(f, s).path, DownloadSize)
       /\ hist' = [WithOrd(hist, Target(f, s).path.num)
                     EXCEPT ![<<ci, idx>>].ends = @ \cup {"DOWNLOADED"}]
       /\ cur' = Seen(Tally(cur, AlreadyThere(disk, Target(f, s).path), TRUE), f, s)
  /\ last_exception' = 0
  /\ pc' = "after"
  /\ UNCHANGED <<overwrite, run, first, driver, pinned, ci, n_videos, idx, counter, attempt,
                 records, quits, loginCalls, discoverCalls, fatal, listed>>

\* extract_video_info returns, download_hls raises: the except handler runs.
attempt_download_raises ==
  /\ pc = "attempt"
  /\ BrowserOp
  /\ \E f \in Folders, s \in Stems :
       /\ Answer(TRUE)
       /\ ~ShouldSkip(overwrite, disk, Target(f, s).path)
       /\ Resolved(f, s)
       /\ Handler([Seen(Tally(cur, AlreadyThere(disk, Target(f, s).path), TRUE), f, s)
                     EXCEPT !.draises = @ + 1],
                  WithOrd(hist, Target(f, s).path.num))
  /\ UNCHANGED <<overwrite, run, first, driver, pinned, ci, n_videos, idx, counter, disk,
                 records, quits, loginCalls, discoverCalls, fatal, listed>>

\* if last_exception is not None: (false) - on to the next video.
no_failure ==
  /\ pc = "after" /\ last_exception = 0
  /\ idx' = idx + 1 /\ pc' = "video"
  /\ UNCHANGED <<overwrite, run, first, driver, pinned, ci, n_videos, counter, folder,
                 file_name, hls_url, last_exception, attempt, disk, records,
                 quits, opsAfterQuit, loginCalls, discoverCalls, fatal, listed, hist, cur,
                 irregular>>

\* if last_exception is not None: the FailureRecord is written.
write_failure_record ==
  /\ pc = "after" /\ last_exception # 0
  /\ CanCreate(file_name)
  /\ records' = {r \in records : r.path # ErrorFile(folder, counter, file_name)}
                  \cup {[path |-> ErrorFile(folder, counter, file_name),
                         vid |-> <<ci, idx>>]}
  /\ hist' = [WithOrd(hist, ErrorFile(folder, counter, file_name).num)
                EXCEPT ![<<ci, idx>>].ends = @ \cup {"FAILED"}]
  /\ cur' = [cur EXCEPT !.recs = @ + 1]
  /\ idx' = idx + 1 /\ pc' = "video"
  /\ UNCHANGED <<overwrite, run, first, driver, pinned, ci, n_videos, counter, folder,
                 file_name, hls_url, last_exception, attempt, disk, quits,
                 opsAfterQuit, loginCalls, discoverCalls, fatal, listed, irregular>>

\* open(error_file, "w") raises: outside the try/except of the retry loop, so
\* the exception leaves main through the finally clause.
write_failure_record_raises ==
  /\ pc = "after" /\ last_exception # 0
  /\ ~CanCreate(file_name)
  /\ hist' = [hist EXCEPT ![<<ci, idx>>].ends = @ \cup {"FAILED"}]
  /\ Propagate("record")
  /\ UNCHANGED <<overwrite, run, first, locals, disk, records, opsAfterQuit, loginCalls, discoverCalls,
                 listed, cur, irregular>>

Next ==
  \/ startup_ok
  \/ startup_raises
  \/ automated_login_ok
  \/ automated_login_raises
  \/ get_pinned_courses_ok
  \/ get_pinned_courses_raises
  \/ get_video_urls_ok
  \/ get_video_urls_raises
  \/ finish
  \/ begin_video
  \/ end_course
  \/ attempt_resolve_raises
  \/ attempt_skip
  \/ attempt_download_ok
  \/ attempt_download_raises
  \/ no_failure
  \/ write_failure_record
  \/ write_failure_record_raises

Spec == Init /\ [][Next]_vars

\* The same runs of main, named for the properties of the retry loop and of
\* the order of operations.
SpecLoop == Init /\ [][Next]_vars

(* ------------------- the end-to-end scenario (spec 8) ------------------- *)
\* One course whose listing is [v3, v2, v1], an empty output tree, overwrite
\* disabled; login, discovery and the listing succeed.  The answers to the
\* attempts stay free.  From an empty tree with one course no target exists
\* before its own video wrote it, so the skip branch is never enabled here
\* (E2ENoSkip below).
InitE2E == Init /\ disk = {} /\ overwrite = FALSE

get_pinned_courses_e2e ==
  /\ pc = "discover"
  /\ BrowserOp /\ discoverCalls' = discoverCalls + 1
  /\ pinned' = 1
  /\ ci' = 1 /\ pc' = "course"
  /\ UNCHANGED <<overwrite, run, first, driver, n_videos, idx, counter, folder, file_name,
                 hls_url, last_exception, attempt, disk, records, quits,
                 loginCalls, fatal, listed, hist, cur, irregular>>

get_video_urls_e2e ==
  /\ pc = "course" /\ ci <= pinned
  /\ BrowserOp
  /\ n_videos' = Len(E2EListing)
  /\ listed' = [listed EXCEPT ![ci] = Len(E2EListing)]
  /\ idx' = 0 /\ pc' = "video"
  /\ UNCHANGED <<overwrite, run, first, driver, pinned, ci, counter, folder, file_name,
                 hls_url, last_exception, attempt, disk, records, quits,
                 loginCalls, discoverCalls, fatal, hist, cur, irregular>>

NextE2E ==
  \/ startup_ok
  \/ automated_login_ok
  \/ get_pinned_courses_e2e
  \/ get_video_urls_e2e
  \/ finish
  \/ begin_video
  \/ end_course
  \/ attempt_resolve_raises
  \/ attempt_download_ok
  \/ attempt_download_raises
  \/ no_failure
  \/ write_failure_record
  \/ write_failure_record_raises

SpecE2E == InitE2E /\ [][NextE2E]_vars

(* ------------------------------ claims --------------------------------- *)
\* main has returned or raised.
Ended == pc \in {"done", "aborted"}

\* The video at position i of course c has left the per-video loop body.
Finished(c, i) ==
  /\ listed[c] >= 0 /\ i < listed[c]
  /\ c < ci \/ (c = ci /\ i < idx)

\* The number a two-digit ordinal prefix denotes.
OrdValue(num) == 10 * num[1] + num[2]

\* C1 (retry bound): a video whose metadata resolution raises on every
\* attempt gets exactly 3 resolutions and no download call, 2 delays (one
\* after attempt 1, one after attempt 2, none after attempt 3), then exactly
\* one FailureRecord, and the loop goes on to the next position without an
\* exception leaving the per-video loop body.
C1_RetryBound ==
  /\ cur.resolves = cur.rraises =>
       /\ cur.downloads = 0
       /\ cur.resolves <= 3
       /\ cur.sleeps = (IF cur.rraises < 3 THEN cur.rraises ELSE 2)
  /\ cur.rraises = 3 =>
       /\ cur.resolves = 3 /\ cur.downloads = 0 /\ cur.sleeps = 2
       /\ fatal # "record"
       /\ pc # "attempt"
       /\ pc = "after" => (cur.recs = 0 /\ last_exception # 0 /\ CanCreate(file_name))
       /\ pc # "after" =>
            /\ cur.recs = 1
            /\ Cardinality({r \in records : r.vid = cur.vid}) = 1
            /\ <<ci, idx>> # cur.vid

\* C1 witness: three raised resolutions, the FailureRecord written, and the
\* video loop about to start the next video of the course.
C1_Witness ==
  /\ cur.rraises = 3 /\ cur.recs = 1
  /\ pc = "video" /\ idx < n_videos

\* C2 (idempotent skip): with overwrite disabled, once the target path of an
\* attempt is a file larger than 1,000,000 bytes, no download call is made in
\* that attempt or later, no further attempt is made, and the video ends
\* SKIPPED: when the loop body is left it is in no other end state and has no
\* FailureRecord.
C2_IdempotentSkip ==
  (~overwrite /\ cur.present # 0) =>
     /\ cur.late = 0
     /\ cur.resolves = cur.present
     /\ pc # "attempt"
     /\ "SKIPPED" \in hist[cur.vid].ends
     /\ pc # "after" => (hist[cur.vid].ends = {"SKIPPED"} /\ cur.recs = 0)

\* C2 failing state: the target was found on attempt 2 after attempt 1 had
\* raised, no download call was made, and a FailureRecord was written.
C2_Witness ==
  /\ ~overwrite /\ cur.present = 2 /\ cur.downloads = 0
  /\ hist[cur.vid].ends = {"SKIPPED", "FAILED"} /\ cur.recs = 1

\* C3 (isolation): once all 3 attempts of a video raised, no exception leaves
\* the per-video loop body, and when main ends every later video of the same
\* course and every video of every later course has had an attempt.
C3_Isolation ==
  \A c \in Courses, i \in Positions :
    (Ended /\ hist[<<c, i>>].exhausted) =>
       /\ fatal # "record"
       /\ \A j \in Positions :
            (i < j /\ j < listed[c]) => hist[<<c, j>>].tried
       /\ \A d \in Courses :
            (c < d /\ d <= pinned) =>
               /\ listed[d] >= 0
               /\ \A j \in Positions : j < listed[d] => hist[<<d, j>>].tried

\* C3 failing state: every attempt of a video raised, the FailureRecord could
\* not be written, main ended by that error and the next video of the course
\* was never attempted.
C3_Witness ==
  /\ pc = "aborted" /\ fatal = "record"
  /\ hist[<<ci, idx>>].exhausted
  /\ idx + 1 < n_videos /\ ~hist[<<ci, idx + 1>>].tried

\* C4 (one end state): every video that left the loop body ended in exactly
\* one of SKIPPED, DOWNLOADED, FAILED, and a FailureRecord exists only for a
\* video all 3 of whose attempts raised, never for a skipped or downloaded one.
C4_OneEndState ==
  /\ \A c \in Courses, i \in Positions :
       Finished(c, i) => Cardinality(hist[<<c, i>>].ends) = 1
  /\ \A r \in records :
       /\ hist[r.vid].exhausted
       /\ hist[r.vid].ends \cap {"SKIPPED", "DOWNLOADED"} = {}

\* C4 failing state: a FailureRecord of a video that was skipped before its
\* third attempt.
C4_Witness ==
  \E r \in records :
    /\ "SKIPPED" \in hist[r.vid].ends
    /\ ~hist[r.vid].exhausted

\* C5 (overwrite): with overwrite enabled every attempt whose resolution
\* returned made a download call, whatever is at the target path, and no video
\* is ever skipped.
C5_Overwrite ==
  overwrite =>
    /\ \A k \in VidKeys : "SKIPPED" \notin hist[k].ends
    /\ cur.downloads = cur.resolves - cur.rraises

\* C5 witness: overwrite enabled, the target was a file larger than 1,000,000
\* bytes, and the download call was made all the same.
C5_Witness ==
  /\ overwrite /\ cur.present # 0 /\ cur.downloads >= 1
  /\ "DOWNLOADED" \in hist[cur.vid].ends

\* C6 (ordinals): in a course whose listing has N videos the video at
\* position i carries ordinal N - i in every target path and in its
\* FailureRecord name; the ordinals of one course are pairwise distinct and
\* lie in 1..N.
C6_Ordinals ==
  /\ \A c \in Courses, i \in Positions :
       \A o \in hist[<<c, i>>].ords :
          /\ OrdValue(o) = listed[c] - i
          /\ OrdValue(o) \in 1..listed[c]
  /\ \A c \in Courses, i \in Positions, j \in Positions :
       i # j => hist[<<c, i>>].ords \cap hist[<<c, j>>].ords = {}
  /\ \A r \in records : OrdValue(r.path.num) = listed[r.vid[1]] - r.vid[2]
  /\ pc \in {"attempt", "after"} => counter = listed[ci] - idx

\* C6 witness: a course with at least two videos, each with a target path,
\* the last of them with a FailureRecord.
C6_Witness ==
  \E c \in Courses :
    /\ listed[c] >= 2
    /\ \A i \in Positions : i < listed[c] => hist[<<c, i>>].ords # {}
    /\ \E r \in records : r.vid = <<c, listed[c] - 1>>

\* C7 (session release): once the session exists it is released exactly once
\* on every way out of main, and no browser operation follows the release.
C7_SessionRelease ==
  /\ quits <= 1
  /\ ~opsAfterQuit
  /\ (driver = "quit") <=> (quits = 1)
  /\ (driver = "quit") => Ended
  /\ (Ended /\ fatal # "startup") => (driver = "quit" /\ quits = 1)
  /\ fatal = "startup" => driver = "none"

\* C7 witness: main left by an error while writing a FailureRecord, session
\* released once.
C7_Witness == pc = "aborted" /\ fatal = "record" /\ quits = 1 /\ driver = "quit"

\* C8 (login): login is called exactly once and before any other portal
\* operation; when it raises nothing else happens in the run (no discovery,
\* listing, resolution, download, FailureRecord) and the session is released.
C8_LoginOnce ==
  /\ loginCalls <= 1
  /\ pc \in {"discover", "course", "video", "attempt", "after", "done"}
       => loginCalls = 1
  /\ (\/ discoverCalls > 0
      \/ \E c \in Courses : listed[c] >= 0
      \/ \E k \in VidKeys : hist[k].tried
      \/ records # {}) => (loginCalls = 1 /\ fatal # "login")
  /\ fatal = "login" =>
       /\ pc = "aborted" /\ loginCalls = 1
       /\ discoverCalls = 0
       /\ \A c \in Courses : listed[c] = -1
       /\ \A k \in VidKeys : ~hist[k].tried
       /\ cur = NoCalls /\ records = {} /\ disk \in SeedDisks
       /\ driver = "quit" /\ quits = 1

\* C8 witness: the login raised and main has ended.
C8_Witness == fatal = "login" /\ loginCalls = 1 /\ pc = "aborted"

\* C9 (run completeness): when login and discovery succeeded, main ends only
\* with every discovered course listed and every listed video in an end
\* state; a failure in one course leaves no later course unprocessed.  (The
\* course whose own listing raised is not counted against the claim.)
C9_RunCompleteness ==
  (Ended /\ discoverCalls = 1 /\ fatal \notin {"login", "discovery"}) =>
     \A c \in Courses :
       c <= pinned =>
         \/ fatal = "listing" /\ c = ci
         \/ /\ listed[c] >= 0
            /\ \A i \in Positions : i < listed[c] => hist[<<c, i>>].ends # {}

\* C9 failing state: the listing of the first of two discovered courses
\* raised, main ended, the second course was never listed.
C9_Witness ==
  /\ pc = "aborted" /\ fatal = "listing"
  /\ ci = 1 /\ pinned = 2 /\ listed[2] = -1

\* The end-to-end scenario: v3 and v1 end downloaded, every attempt of v2
\* raised.
E2EScenario ==
  /\ hist[<<1, 0>>].ends = {"DOWNLOADED"}
  /\ hist[<<1, 1>>].exhausted
  /\ hist[<<1, 2>>].tried => hist[<<1, 2>>].ends = {"DOWNLOADED"}

\* C10 (end to end): in the scenario main ends without a fatal error with an
\* .mp4 at ordinal 03, an .mp4 at ordinal 01 and a FailureRecord and no .mp4
\* at ordinal 02; and whenever main returns, every video at position i has
\* exactly one artifact with ordinal N - i, an .mp4 if an attempt succeeded
\* and a FailureRecord otherwise.
C10_EndToEnd ==
  /\ (Ended /\ E2EScenario) =>
       /\ pc = "done" /\ fatal = "none"
       /\ Cardinality(disk) = 2
       /\ {OrdValue(f.path.num) : f \in disk} = {3, 1}
       /\ Cardinality(records) = 1
       /\ \A r \in records : OrdValue(r.path.num) = 2 /\ r.vid = <<1, 1>>
  /\ pc = "done" =>
       \A i \in Positions :
         i < listed[1] =>
           LET media == {f \in disk : OrdValue(f.path.num) = listed[1] - i}
               notes == {r \in records : OrdValue(r.path.num) = listed[1] - i}
           IN /\ Cardinality(media) + Cardinality(notes) = 1
              /\ (media # {}) <=> ("DOWNLOADED" \in hist[<<1, i>>].ends)

\* C10 failing state: v3 downloaded, every attempt of v2 raised, its
\* FailureRecord could not be written, main ended by that error before v1.
C10_Witness ==
  /\ pc = "aborted" /\ fatal = "record"
  /\ hist[<<1, 0>>].ends = {"DOWNLOADED"}
  /\ hist[<<1, 1>>].exhausted /\ ~hist[<<1, 2>>].tried
  /\ records = {}

(* ------------------------- sanitize_filename --------------------------- *)
\* Longest name drawn as an input of sanitize_filename.
MaxLen == 3

\* Characters of the inputs: a letter, the replacement character, the two
\* path separators, another reserved character, the dash of folder_base and
\* two whitespace characters.  A name is a sequence of characters.
Chars == {"a", "_", "/", "\\", ":", "-", " ", "\t"}
Names == UNION {[1..n -> Chars] : n \in 0..MaxLen}

\* The character class [\\/*?:"<>|] of the first re.sub.
ReservedChars == {"\\", "/", "*", "?", ":", "\"", "<", ">", "|"}
PathSeparators == {"/", "\\"}
\* The characters \s matches and str.strip removes.
IsSpace(c) == c \in {" ", "\t", "\n", "\r"}

\* re.sub(r'[\\/*?:"<>|]', '_', name)
Clean(name) ==
  [k \in 1..Len(name) |-> IF name[k] \in ReservedChars THEN "_" ELSE name[k]]

\* str.lstrip()
RECURSIVE LStrip(_)
LStrip(s) ==
  IF s # <<>> /\ IsSpace(Head(s)) THEN LStrip(Tail(s)) ELSE s

\* str.rstrip()
RECURSIVE RStrip(_)
RStrip(s) ==
  IF s # <<>> /\ IsSpace(s[Len(s)]) THEN RStrip(SubSeq(s, 1, Len(s) - 1)) ELSE s

\* str.strip()
Strip(s) == RStrip(LStrip(s))

\* re.sub(r'\s+', ' ', s): every maximal run of whitespace becomes one space.
RECURSIVE Collapse(_)
Collapse(s) ==
  IF s = <<>> THEN <<>>
  ELSE IF IsSpace(Head(s)) THEN <<" ">> \o Collapse(LStrip(Tail(s)))
  ELSE <<Head(s)>> \o Collapse(Tail(s))

\* Variant: the whitespace runs collapsed but the ends not stripped.
sanitize_filename_NoStrip(name) == Collapse(Clean(name))

\* def sanitize_filename(name)
sanitize_filename(name) == Strip(Collapse(Clean(name)))

\* What extract_year_or_fallback can return: a year, or the relative path
\* without its leading slash (which keeps its inner slashes).
YearOrPath == {<<"a">>, <<"a", "/", "a">>}

\* The program holds a raw name in file_name; nothing else has happened.
InitSanitize ==
  /\ pc = "sanitize"
  /\ file_name \in Names
  /\ folder = <<>>
  /\ overwrite = FALSE /\ driver = "none"
  /\ pinned = 0 /\ ci = 0 /\ n_videos = 0 /\ idx = 0 /\ counter = 0
  /\ hls_url = <<>> /\ last_exception = 0 /\ attempt = 0
  /\ disk = {} /\ records = {}
  /\ quits = 0 /\ opsAfterQuit = FALSE /\ loginCalls = 0 /\ fatal = "none"
  /\ discoverCalls = 0
  /\ listed = [c \in Courses |-> -1]
  /\ hist = [k \in VidKeys |-> NoHist]
  /\ cur = NoCalls
  /\ irregular = 0
  /\ run = 1 /\ first = NoFirst

\* folder = sanitize_filename(file_name)
sanitize_once ==
  /\ pc = "sanitize"
  /\ folder' = sanitize_filename(file_name)
  /\ pc' = "sanitized"
  /\ UNCHANGED <<overwrite, run, first, driver, pinned, ci, n_videos, idx, counter,
                 file_name, hls_url, last_exception, attempt, disk, records,
                 quits, opsAfterQuit, loginCalls, discoverCalls, fatal, listed,
                 hist, cur, irregular>>

\* file_name = sanitize_filename(folder): the function applied to its result.
sanitize_again ==
  /\ pc = "sanitized"
  /\ file_name' = sanitize_filename(folder)
  /\ pc' = "resanitized"
  /\ UNCHANGED <<overwrite, run, first, driver, pinned, ci, n_videos, idx, counter,
                 folder, hls_url, last_exception, attempt, disk, records,
                 quits, opsAfterQuit, loginCalls, discoverCalls, fatal, listed,
                 hist, cur, irregular>>

\* The names extract_video_info returns: safe_folder from
\* f"{span_text} - {year_or_path}" and safe_file from h1_text (here both
\* texts are the raw name).
extract_video_info_names ==
  /\ pc = "sanitize"
  /\ \E y \in YearOrPath :
       folder' = sanitize_filename(file_name \o <<" ", "-", " ">> \o y)
  /\ file_name' = sanitize_filename(file_name)
  /\ pc' = "extracted"
  /\ UNCHANGED <<overwrite, run, first, driver, pinned, ci, n_videos, idx, counter,
                 hls_url, last_exception, attempt, disk, records,
                 quits, opsAfterQuit, loginCalls, discoverCalls, fatal, listed,
                 hist, cur, irregular>>

NextSanitize ==
  \/ sanitize_once
  \/ sanitize_again
  \/ extract_video_info_names

SpecSanitize == InitSanitize /\ [][NextSanitize]_vars

\* A sanitized name: no reserved character, no two neighbouring whitespace
\* characters, no whitespace at either end.
Sanitized(s) ==
  /\ \A k \in 1..Len(s) : s[k] \notin ReservedChars
  /\ \A k \in 1..(Len(s) - 1) : ~(IsSpace(s[k]) /\ IsSpace(s[k + 1]))
  /\ s # <<>> => (~IsSpace(s[1]) /\ ~IsSpace(s[Len(s)]))

\* C11 (sanitize_filename): the result of sanitize_filename has no reserved
\* character, no two consecutive whitespace characters and no leading or
\* trailing whitespace; applying the function to its result changes nothing;
\* the folder and the stem extract_video_info returns hold no path separator.
C11_Sanitize ==
  /\ pc \in {"sanitized", "resanitized"} => Sanitized(folder)
  /\ pc = "resanitized" => file_name = folder
  /\ pc = "extracted" =>
       /\ Sanitized(folder) /\ Sanitized(file_name)
       /\ \A k \in 1..Len(folder) : folder[k] \notin PathSeparators
       /\ \A k \in 1..Len(file_name) : file_name[k] \notin PathSeparators

\* C11 witness: the function applied twice, its result holding a replacement
\* character and an inner space.
C11_Witness ==
  /\ pc = "resanitized"
  /\ folder = <<"_", " ", "a">> /\ file_name = folder

\* C12 (retry with full re-extraction): every attempt of a video begins with
\* a resolution call, so the resolutions made for a video number its attempts;
\* every idempotency check and every download call works on the stream URL
\* and the names the resolution of the same attempt returned.
C12_FreshResolution ==
  /\ pc = "attempt" => cur.resolves = attempt - 1
  /\ pc = "after" => cur.resolves = attempt
  /\ cur.stale = 0
  /\ cur.names # <<>> =>
       /\ folder = cur.names[1] /\ file_name = cur.names[2]
       /\ hls_url[1] = cur.vid[1] /\ hls_url[2] = cur.vid[2]
       /\ hls_url[3] <= cur.resolves

\* C12 witness: the download call of attempt 1 raised, attempt 2 resolved
\* again, to the other title, and downloaded to the path of that title.
C12_Witness ==
  /\ pc = "after" /\ attempt = 2
  /\ cur.resolves = 2 /\ cur.downloads = 2 /\ cur.draises = 1
  /\ file_name = "t2" /\ hls_url = <<ci, idx, 2>>
  /\ isfile(disk, OutPath(folder, counter, "t2"))

\* C13 (attempt bounds and short-circuit): a video gets at most 3 resolutions
\* and at most 3 download calls and at most one download call that returns;
\* once a download call returned or the video was skipped, the retry loop is
\* left in that same attempt (no resolution, download call or delay follows);
\* the delays of a video are exactly one after each failed attempt numbered 1
\* or 2.
C13_AttemptBounds ==
  /\ cur.resolves <= 3 /\ cur.downloads <= 3
  /\ cur.downloads - cur.draises \in {0, 1}
  /\ cur.downloads <= cur.resolves - cur.rraises
  /\ cur.sleeps =
       (IF cur.rraises + cur.draises < 3 THEN cur.rraises + cur.draises ELSE 2)
  /\ pc \in {"attempt", "after"} =>
       LET h == hist[<<ci, idx>>]
       IN /\ "DOWNLOADED" \in h.ends <=> cur.downloads - cur.draises = 1
          /\ h.ends \cap {"DOWNLOADED", "SKIPPED"} # {} =>
               /\ pc = "after"
               /\ cur.resolves = attempt
               /\ cur.rraises + cur.draises = attempt - 1
               /\ cur.sleeps = attempt - 1

\* C13 witness: two failed attempts, each followed by a delay, then a download
\* call that returned on attempt 3, and the video loop has moved on.
C13_Witness ==
  /\ pc = "video"
  /\ cur.resolves = 3 /\ cur.downloads - cur.draises = 1 /\ cur.sleeps = 2
  /\ hist[cur.vid].ends = {"DOWNLOADED"}

\* The FailureRecord path of the video at position i of a course of n videos
\* whose last returned resolution returned names (<<>>: none returned).
RecordPath(n, i, names) ==
  [dir |-> IF names = <<>> THEN "unknown" ELSE names[1],
   num |-> Fmt02(n - i),
   stem |-> IF names = <<>> THEN "unknown" ELSE names[2],
   ext |-> ""]

\* C15 (FailureRecord naming): the FailureRecord of a video goes to
\* out/<folder>/<NN> <stem> without extension, NN = N - i in two digits;
\* folder and stem are both "unknown" exactly when no resolution returned for
\* this video, and otherwise the names the most recent returned resolution of
\* this video returned.
C15_RecordNaming ==
  /\ pc = "after" =>
       /\ ErrorFile(folder, counter, file_name)
            = RecordPath(listed[ci], idx, cur.names)
       /\ (cur.names = <<>>) <=> (cur.resolves = cur.rraises)
       /\ (folder = "unknown" /\ file_name = "unknown") <=> (cur.names = <<>>)
  /\ cur.recs = 1 =>
       \E r \in records :
         /\ r.vid = cur.vid
         /\ r.path = RecordPath(listed[cur.vid[1]], cur.vid[2], cur.names)
  /\ \A r \in records :
       /\ r.path.ext = "" /\ Len(r.path.num) = 2
       /\ OrdValue(r.path.num) = listed[r.vid[1]] - r.vid[2]
       /\ (r.path.dir = "unknown") <=> (r.path.stem = "unknown")

\* C15 witness: the second video of a course had a resolution that raised
\* and one that returned, and its FailureRecord carries the returned stem.
C15_Witness ==
  /\ pc = "video" /\ cur.recs = 1 /\ cur.vid[2] = 1
  /\ cur.names # <<>> /\ cur.rraises >= 1
  /\ \E r \in records : r.vid = cur.vid /\ r.path.stem = cur.names[2]

\* The video k is over: it has an end state, and its FailureRecord, if it got
\* one, is written.
Terminal(k) ==
  LET h == hist[k]
  IN /\ h.ends # {}
     /\ h.exhausted => "FAILED" \in h.ends
     /\ (k = cur.vid) => pc \notin {"attempt", "after"}

\* The video <<c, i>> comes before <<d, j>> in the order of the run.
Before(c, i, d, j) == c < d \/ (c = d /\ i < j)

\* C16 (strict sequencing): login comes before discovery, discovery before
\* any listing, the listing of a course before its videos; a course is listed
\* only when the courses before it are listed and their last videos are over;
\* a video gets its first attempt only when the video before it in the
\* listing is over; a video that is over has been attempted; so the videos
\* are taken one at a time in the order of the listings, and only the video
\* the loop is at can be in progress.
C16_Sequencing ==
  /\ discoverCalls <= 1
  /\ discoverCalls = 1 => (loginCalls = 1 /\ fatal # "login")
  /\ \A c \in Courses :
       listed[c] >= 0 =>
         /\ discoverCalls = 1 /\ fatal # "discovery" /\ c <= pinned
         /\ \A d \in Courses :
              d < c => /\ listed[d] >= 0
                       /\ listed[d] > 0 => Terminal(<<d, listed[d] - 1>>)
  /\ \A k \in VidKeys :
       /\ hist[k].tried \/ hist[k].ends = {}
       /\ hist[k].tried =>
            /\ listed[k[1]] >= 0 /\ k[2] < listed[k[1]]
            /\ k[2] > 0 => Terminal(<<k[1], k[2] - 1>>)
            /\ ~Terminal(k) =>
                 /\ k = <<ci, idx>>
                 /\ pc \in {"attempt", "after"} \/ fatal = "record"

\* C16 witness: the first video of the second course is in its first attempt;
\* the first course was listed with two videos and both are over.
C16_Witness ==
  /\ pc = "attempt" /\ ci = 2 /\ idx = 0 /\ attempt = 1
  /\ listed[1] = 2 /\ Terminal(<<1, 0>>) /\ Terminal(<<1, 1>>)
  /\ hist[<<1, 0>>].ends # hist[<<1, 1>>].ends

\* C17 (strict threshold): with overwrite disabled, an attempt whose target
\* is absent or has at most 1,000,000 bytes makes the download call and does
\* not mark the video SKIPPED: a video is SKIPPED only by an attempt that
\* found more than 1,000,000 bytes, and while no attempt found that, every
\* resolution that returned was followed by a download call.
C17_StrictThreshold ==
  (~overwrite /\ cur.vid \in VidKeys) =>
     /\ "SKIPPED" \in hist[cur.vid].ends => cur.present # 0
     /\ cur.present = 0 => cur.downloads = cur.resolves - cur.rraises

\* C17 witness: overwrite disabled, the target of attempt 1 held exactly
\* 1,000,000 bytes, the download call was made (it raised, so the file is
\* still there) and the retry loop goes on.
C17_Witness ==
  /\ ~overwrite /\ pc = "attempt" /\ attempt = 2
  /\ cur.downloads = 1 /\ cur.draises = 1 /\ cur.present = 0
  /\ isfile(disk, OutPath(folder, counter, file_name))
  /\ getsize(disk, OutPath(folder, counter, file_name)) = Threshold

(* ------------------- runs in which no page resolves -------------------- *)
\* extract_video_info raises because the video pages do not render at all
\* (the portal changed its page layout): every attempt of every video ends
\* this way.
attempt_resolve_unavailable == ResolveRaises /\ UNCHANGED irregular

NextUnavailable ==
  \/ startup_ok
  \/ automated_login_ok
  \/ get_pinned_courses_ok
  \/ get_video_urls_ok
  \/ finish
  \/ begin_video
  \/ end_course
  \/ attempt_resolve_unavailable
  \/ write_failure_record

SpecUnavailable == Init /\ [][NextUnavailable]_vars

\* The videos that ended FAILED.
FailedVideos == {k \in VidKeys : "FAILED" \in hist[k].ends}

\* C18 (distinct FailureRecords): the FailureRecords of two different failed
\* videos never go to the same path, so the FailureRecord of every failed
\* video is still there afterwards and, when the run has ended, there are as
\* many FailureRecord files as FAILED videos.
C18_DistinctRecords ==
  /\ \A k \in FailedVideos : \E r \in records : r.vid = k
  /\ pc = "done" => Cardinality(records) = Cardinality(FailedVideos)

\* C18 failing state: two courses of one video each, neither video resolved,
\* both ended FAILED with ordinal 01, and one FailureRecord file exists.
C18_Witness ==
  /\ pc = "done" /\ listed[1] = 1 /\ listed[2] = 1
  /\ FailedVideos = {<<1, 0>>, <<2, 0>>}
  /\ Cardinality(records) = 1
  /\ \A r \in records : r.path = RecordPath(1, 0, <<>>) /\ r.vid = <<2, 0>>

(* ------------------------------ two runs ------------------------------- *)
\* The program run twice on one output tree, both times without --overwrite,
\* for one pinned course whose pages keep their titles; between the runs the
\* portal may add videos at the head of the listing.
InitRerun == Init /\ disk = {} /\ overwrite = FALSE

\* The listing of the first run.
get_video_urls_first == run = 1 /\ get_video_urls_ok

\* The listing of the second run: that of the first with k videos prepended.
get_video_urls_again ==
  /\ run = 2
  /\ pc = "course" /\ ci <= pinned
  /\ BrowserOp
  /\ \E k \in 0..MaxPrepend :
       /\ k = 0 \/ first.listed[ci] + k - 1 \in Positions
       /\ n_videos' = first.listed[ci] + k
       /\ listed' = [listed EXCEPT ![ci] = first.listed[ci] + k]
  /\ idx' = 0 /\ pc' = "video"
  /\ UNCHANGED <<overwrite, run, first, driver, pinned, ci, counter, folder,
                 file_name, hls_url, last_exception, attempt, disk, records,
                 quits, loginCalls, discoverCalls, fatal, hist, cur, irregular>>

\* The attempts of a page that shows its regular title.
attempt_skip_regular == attempt_skip /\ file_name' = RegularStem
attempt_download_ok_regular == attempt_download_ok /\ file_name' = RegularStem
attempt_download_raises_regular ==
  attempt_download_raises /\ file_name' = RegularStem

\* main has returned after listing the course; the program is started again.
\* Only the output tree is carried over.
rerun ==
  /\ run = 1 /\ pc = "done" /\ listed[1] >= 0
  /\ run' = 2
  /\ first' = [listed |-> listed, hist |-> hist]
  /\ pc' = "start" /\ driver' = "none"
  /\ pinned' = 0 /\ ci' = 0 /\ n_videos' = 0 /\ idx' = 0 /\ counter' = 0
  /\ folder' = "" /\ file_name' = "" /\ hls_url' = <<>>
  /\ last_exception' = 0 /\ attempt' = 0
  /\ quits' = 0 /\ opsAfterQuit' = FALSE /\ loginCalls' = 0 /\ fatal' = "none"
  /\ discoverCalls' = 0
  /\ listed' = [c \in Courses |-> -1]
  /\ hist' = [k \in VidKeys |-> NoHist]
  /\ cur' = NoCalls
  /\ UNCHANGED <<overwrite, disk, records, irregular>>

NextRerun ==
  \/ startup_ok
  \/ automated_login_ok
  \/ get_pinned_courses_e2e
  \/ get_video_urls_first
  \/ get_video_urls_again
  \/ finish
  \/ begin_video
  \/ end_course
  \/ attempt_resolve_raises
  \/ attempt_skip_regular
  \/ attempt_download_ok_regular
  \/ attempt_download_raises_regular
  \/ no_failure
  \/ write_failure_record
  \/ rerun

SpecRerun == InitRerun /\ [][NextRerun]_vars

\* The .mp4 target path next to a FailureRecord path.
Sibling(p) == [p EXCEPT !.ext = "mp4"]

\* C14 (rerun safety): when a FailureRecord has just been written for a
\* video, no file larger than 1,000,000 bytes is at the .mp4 path next to it;
\* and a video that got a FailureRecord in the first run is, in a second run
\* with the same listing, the same names and overwrite disabled, not SKIPPED
\* but given a download call as soon as a resolution returns.
C14_RerunSafety ==
  /\ cur.recs = 1 =>
       ~AlreadyThere(disk, Sibling(ErrorFile(folder, counter, file_name)))
  /\ (/\ run = 2 /\ cur.vid \in VidKeys
      /\ listed[1] = first.listed[1]
      /\ "FAILED" \in first.hist[cur.vid].ends
      /\ cur.names # <<>>) =>
        /\ "SKIPPED" \notin hist[cur.vid].ends
        /\ cur.downloads >= 1

\* C14 failing state: in the second run a FailureRecord was written for a
\* video whose .mp4, downloaded by the first run, is next to it.
C14_Witness ==
  /\ run = 2 /\ cur.recs = 1 /\ pc = "video"
  /\ AlreadyThere(disk, Sibling(ErrorFile(folder, counter, file_name)))
  /\ \E r \in records : r.path = ErrorFile(folder, counter, file_name)

\* C19 (ordinal stability): when the listing of the second run is that of the
\* first with k videos prepended, a video of the first run has the same
\* ordinal in both runs; and if the first run DOWNLOADED it, the second run,
\* once a resolution returns the same names, makes no download call for it and
\* it ends SKIPPED.
C19_OrdinalStability ==
  (run = 2 /\ cur.vid \in VidKeys /\ cur.vid[2] >= listed[1] - first.listed[1]) =>
    LET old == <<1, cur.vid[2] - (listed[1] - first.listed[1])>>
    IN /\ (first.hist[old].ords # {} /\ hist[cur.vid].ords # {}) =>
             hist[cur.vid].ords = first.hist[old].ords
       /\ ("DOWNLOADED" \in first.hist[old].ends /\ cur.names # <<>>) =>
            /\ cur.downloads = 0
            /\ pc \notin {"attempt", "after"} => hist[cur.vid].ends = {"SKIPPED"}

\* C19 failing state: one video was prepended; a video the first run
\* DOWNLOADED got no download call in the second run but ended with a
\* FailureRecord as well as the skip.
C19_Witness ==
  /\ run = 2 /\ listed[1] = first.listed[1] + 1 /\ cur.vid \in VidKeys
  /\ cur.vid[2] >= 1 /\ pc = "video"
  /\ "DOWNLOADED" \in first.hist[<<1, cur.vid[2] - 1>>].ends
  /\ cur.downloads = 0
  /\ hist[cur.vid].ends = {"SKIPPED", "FAILED"}
  /\ hist[cur.vid].ords = first.hist[<<1, cur.vid[2] - 1>>].ords

====
